---- MODULE Spec2Model ----
(***************************************************************************)
(* A model of the Slack bot backend of terraform-aws-slackbot:             *)
(*   src/lambda/index.py                the Lambda entry point (router,    *)
(*                                      classifier, SQS batch processor)   *)
(*   src/lambda/listeners/llm_caller.py the Bedrock -> Slack streaming     *)
(*                                      bridge and the markdown transcoder *)
(*   src/lambda/listeners/assistant.py  the assistant message listener     *)
(***************************************************************************)
EXTENDS Integers, Sequences, FiniteSets, TLC

(***************************************************************************)
(* Python values.  A value is a record tagged by its type.  A str is a     *)
(* sequence of lexemes, so that JSON text can be written and read back:    *)
(*   <<"p", c>>  one JSON punctuation character c                          *)
(*   <<"w", x>>  a run x of plain characters                               *)
(*   <<"q", s>>  a double-quoted literal holding the (escaped) str s       *)
(* A dict is a function from keys (strs) to values, a list a sequence.     *)
(***************************************************************************)
PyNone == [t |-> "none"]
PyBool(b) == [t |-> "bool", v |-> b]
PyStr(s) == [t |-> "str", v |-> s]
PyDict(d) == [t |-> "dict", v |-> d]
PyList(l) == [t |-> "list", v |-> l]

P(c) == <<"p", c>>
W(x) == <<"w", x>>
Q(s) == <<"q", s>>

\* The str holding the plain characters x, and the same as a Python value.
K(x) == << W(x) >>
S(x) == PyStr(K(x))

EmptyDict == PyDict(<<>>)

IsDict(val) == val.t = "dict"
IsStr(val) == val.t = "str"

\* Python truthiness: bool(val).
Truthy(val) ==
    CASE val.t = "none" -> FALSE
      [] val.t = "bool" -> val.v
      [] val.t = "str"  -> val.v # <<>>
      [] val.t = "dict" -> DOMAIN val.v # {}
      [] val.t = "list" -> val.v # <<>>

\* key in d, for a dict d.
HasKey(d, key) == K(key) \in DOMAIN d.v

\* d.get(key): the value, or None when the key is missing.
Get(d, key) == IF HasKey(d, key) THEN d.v[K(key)] ELSE PyNone

\* d.get(key, default)
GetOr(d, key, default) == IF HasKey(d, key) THEN d.v[K(key)] ELSE default

(***************************************************************************)
(* json.dumps: the JSON text of a value.                                   *)
(***************************************************************************)
RECURSIVE json_dumps(_), DumpMembers(_, _), DumpElems(_)

DumpMembers(d, keys) ==
    IF keys = {} THEN <<>>
    ELSE LET k == CHOOSE x \in keys : TRUE
             rest == keys \ {k}
             one == << Q(k), P(":") >> \o json_dumps(d[k])
         IN IF rest = {} THEN one ELSE one \o << P(",") >> \o DumpMembers(d, rest)

DumpElems(l) ==
    IF l = <<>> THEN <<>>
    ELSE IF Len(l) = 1 THEN json_dumps(l[1])
    ELSE json_dumps(l[1]) \o << P(",") >> \o DumpElems(Tail(l))

json_dumps(val) ==
    CASE val.t = "none" -> << W("null") >>
      [] val.t = "bool" -> IF val.v THEN << W("true") >> ELSE << W("false") >>
      [] val.t = "str"  -> << Q(val.v) >>
      [] val.t = "dict" -> << P("{") >> \o DumpMembers(val.v, DOMAIN val.v) \o << P("}") >>
      [] val.t = "list" -> << P("[") >> \o DumpElems(val.v) \o << P("]") >>

(***************************************************************************)
(* json.loads: a recursive-descent reader of JSON text.  A reader returns  *)
(* [ok, val, rest]; ok = FALSE is json.JSONDecodeError.                    *)
(***************************************************************************)
ParseFail == [ok |-> FALSE, val |-> PyNone, rest |-> <<>>]
ParseOk(val, rest) == [ok |-> TRUE, val |-> val, rest |-> rest]

RECURSIVE ParseValue(_), ParseMembers(_, _), ParseElems(_, _)

\* After "{" and zero or more members "key: value,": the next member.
ParseMembers(toks, acc) ==
    IF Len(toks) < 3 \/ toks[1][1] # "q" \/ toks[2] # P(":") THEN ParseFail
    ELSE LET r == ParseValue(SubSeq(toks, 3, Len(toks)))
             got == (toks[1][2] :> r.val) @@ acc     \* a repeated key: the last wins
         IN IF ~r.ok \/ r.rest = <<>> THEN ParseFail
            ELSE IF r.rest[1] = P("}") THEN ParseOk(PyDict(got), Tail(r.rest))
            ELSE IF r.rest[1] = P(",") THEN ParseMembers(Tail(r.rest), got)
            ELSE ParseFail

\* After "[" and zero or more elements "value,": the next element.
ParseElems(toks, acc) ==
    LET r == ParseValue(toks)
    IN IF ~r.ok \/ r.rest = <<>> THEN ParseFail
       ELSE IF r.rest[1] = P("]") THEN ParseOk(PyList(Append(acc, r.val)), Tail(r.rest))
       ELSE IF r.rest[1] = P(",") THEN ParseElems(Tail(r.rest), Append(acc, r.val))
       ELSE ParseFail

ParseValue(toks) ==
    IF toks = <<>> THEN ParseFail
    ELSE LET h == toks[1]
             rest == Tail(toks)
         IN CASE h[1] = "q" -> ParseOk(PyStr(h[2]), rest)
              [] h = W("null") -> ParseOk(PyNone, rest)
              [] h = W("true") -> ParseOk(PyBool(TRUE), rest)
              [] h = W("false") -> ParseOk(PyBool(FALSE), rest)
              [] h = P("{") ->
                    IF rest # <<>> /\ rest[1] = P("}") THEN ParseOk(EmptyDict, Tail(rest))
                    ELSE ParseMembers(rest, <<>>)
              [] h = P("[") ->
                    IF rest # <<>> /\ rest[1] = P("]") THEN ParseOk(PyList(<<>>), Tail(rest))
                    ELSE ParseElems(rest, <<>>)
              [] OTHER -> ParseFail

\* json.loads(text): [ok, val]; trailing text after the value is an error.
json_loads(text) ==
    LET r == ParseValue(text)
    IN IF r.ok /\ r.rest = <<>> THEN [ok |-> TRUE, val |-> r.val]
       ELSE [ok |-> FALSE, val |-> PyNone]

(***************************************************************************)
(* The state.                                                              *)
(*   queue_url    os.environ["SQS_QUEUE_URL"]: None, or a str whose last   *)
(*                segment tells a FIFO queue (".fifo")                     *)
(*   invocations  how many HTTP invocations have started (each has its own *)
(*                context.aws_request_id)                                  *)
(*   last         the last HTTP invocation of handler: its envelope, its   *)
(*                environment, the path it took and what it did            *)
(*   queue        the durable queue: message id -> [body, group, state]    *)
(*   batch        the batch invocation in progress, if any                 *)
(*   batches      how many batch invocations have run                      *)
(*   handled      the messages some record_handler call has handled        *)
(*                without error                                            *)
(* of one call of call_bedrock_stream:                                     *)
(*   stream       response.get("stream"): the events Bedrock will yield,   *)
(*                or NoStream                                              *)
(*   pc           where the call is                                        *)
(*   pos          how many events the loop has taken from the stream       *)
(*   trace        the external calls made so far, in order                 *)
(* and of one call of process_message_lazily:                              *)
(*   pml          its message, its environment and what it did             *)
(***************************************************************************)
VARIABLES queue_url, invocations, last, queue, batch, batches, handled,
          stream, pc, pos, trace, pml, md

routerVars == <<queue_url, invocations, last, queue, batch, batches, handled>>
bridgeVars == <<stream, pc, pos, trace>>
vars == <<routerVars, bridgeVars, pml, md>>

(***************************************************************************)
(* Bounds and input sets.                                                  *)
(***************************************************************************)
\* How many batches the event source mapping delivers in a run.
MaxBatches == 2

\* SQS_QUEUE_URL: unset, empty, a standard queue, a FIFO queue.
StdQueueUrl == PyStr(<< W("https://sqs/slack-events") >>)
FifoQueueUrl == PyStr(<< W("https://sqs/slack-events"), W(".fifo") >>)
QueueUrls == {PyNone, PyStr(<<>>), StdQueueUrl, FifoQueueUrl}

\* queue_url.endswith(".fifo")
EndsWithFifo(url) == url.v # <<>> /\ url.v[Len(url.v)] = W(".fifo")

\* context.aws_request_id of the n-th invocation.
RequestId(n) == PyStr(<< <<"id", n>> >>)

\* Request bodies, as JSON text.
JsonObject(d) == json_dumps(PyDict(d))
HandshakeBody ==
    PyStr(<< P("{"), Q(K("type")), P(":"), Q(K("url_verification")), P(","),
             Q(K("challenge")), P(":"), Q(K("abc123")), P("}") >>)
HandshakeNoChallengeBody == PyStr(JsonObject(K("type") :> S("url_verification")))
EventCallbackBody ==
    PyStr(JsonObject((K("type") :> S("event_callback")) @@ (K("event") :> EmptyDict)))
ObjectBody == PyStr(<< P("{"), P("}") >>)
ListBody == PyStr(<< P("["), P("]") >>)
NullBody == PyStr(<< W("null") >>)
FormBody == PyStr(<< W("payload=%7B%22type%22%3A%22block_actions%22%7D") >>)

\* The values of an envelope's "body" key; NoKey says the key is missing.
NoKey == [t |-> "nokey"]
Bodies ==
    {NoKey, PyNone, PyStr(<<>>), HandshakeBody, HandshakeNoChallengeBody,
     EventCallbackBody, ObjectBody, ListBody, NullBody, FormBody}

\* The values of requestContext: a mapping with any of http, domainName
\* (null, empty or not) and httpMethod, as in the three transports' schemas.
HttpValues == {NoKey, PyDict(K("method") :> S("POST"))}
DomainValues == {NoKey, PyNone, PyStr(<<>>), S("abc.lambda-url.eu-west-1.on.aws")}
MethodValues == {NoKey, S("POST")}

\* A dict of the given keys, without those whose value is NoKey.
MkDict(keys, val) ==
    LET present == {k \in keys : val[k] # NoKey}
    IN PyDict([k \in {K(n) : n \in present} |-> val[k[1][2]]])

RequestContexts ==
    {NoKey} \cup
    { MkDict({"http", "domainName", "httpMethod"},
             [http |-> h, domainName |-> d, httpMethod |-> m]) :
        h \in HttpValues, d \in DomainValues, m \in MethodValues }

\* An HTTP envelope: requestContext, a top-level httpMethod, a body.
Envelope(rc, top, body) ==
    MkDict({"requestContext", "httpMethod", "body"},
           [requestContext |-> rc, httpMethod |-> top, body |-> body])

Envelopes ==
    { Envelope(rc, top, body) : rc \in RequestContexts, top \in MethodValues, body \in Bodies }

\* A classifier that asks whether domainName is present, not whether it
\* holds a value.
detect_event_type_presence(event) ==
    IF HasKey(event, "requestContext")
    THEN LET request_context == event.v[K("requestContext")]
         IN IF HasKey(request_context, "http") /\ HasKey(request_context, "domainName")
            THEN "function_url"
            ELSE IF HasKey(request_context, "http")
            THEN "api_gateway_v2"
            ELSE IF HasKey(request_context, "httpMethod") \/ HasKey(event, "httpMethod")
            THEN "api_gateway_v1"
            ELSE "unknown"
    ELSE "unknown"

(***************************************************************************)
(* detect_event_type (index.py:143-160)                                    *)
(***************************************************************************)
detect_event_type(event) ==
    IF HasKey(event, "requestContext")
    THEN LET request_context == event.v[K("requestContext")]
         IN IF HasKey(request_context, "http") /\ Truthy(Get(request_context, "domainName"))
            THEN "function_url"
            ELSE IF HasKey(request_context, "http")
            THEN "api_gateway_v2"
            ELSE IF HasKey(request_context, "httpMethod") \/ HasKey(event, "httpMethod")
            THEN "api_gateway_v1"
            ELSE "unknown"
    ELSE "unknown"

(***************************************************************************)
(* The environment of one invocation: whether SQS accepts the request, and *)
(* what SlackRequestHandler.handle does with an envelope (listeners, Slack *)
(* and Bedrock are behind it): it returns a response or raises.            *)
(***************************************************************************)
ReplayOutcomes ==
    { [kind |-> "return", statusCode |-> 200],
      [kind |-> "return", statusCode |-> 404],
      [kind |-> "raise", statusCode |-> 0] }

Response(code, headers, body) == [statusCode |-> code, headers |-> headers, body |-> body]
NoResponse == Response(0, {}, PyNone)

\* What an invocation did: it returned a response or raised exc; the
\* event_type it logged; the messages it sent; its external calls in order.
Returned(event_type, response, sent, calls) ==
    [kind |-> "return", exc |-> "", event_type |-> event_type, response |-> response,
     sent |-> sent, calls |-> calls]
Raised(event_type, exc, sent, calls) ==
    [kind |-> "raise", exc |-> exc, event_type |-> event_type, response |-> NoResponse,
     sent |-> sent, calls |-> calls]

(***************************************************************************)
(* sqs.send_message(QueueUrl=, MessageBody=, MessageGroupId=) as called at *)
(* index.py:124-130.  The client validates the parameters before sending:  *)
(* MessageGroupId is a str, and None is not one (ParamValidationError).    *)
(* A request SQS does not accept raises ClientError.                       *)
(***************************************************************************)
send_message(QueueUrl, MessageBody, MessageGroupId, sqs_up) ==
    IF ~IsStr(MessageGroupId) THEN [ok |-> FALSE, exc |-> "ParamValidationError"]
    ELSE IF ~sqs_up THEN [ok |-> FALSE, exc |-> "ClientError"]
    ELSE [ok |-> TRUE, exc |-> ""]

Message(QueueUrl, MessageBody, MessageGroupId) ==
    [QueueUrl |-> QueueUrl, MessageBody |-> MessageBody, MessageGroupId |-> MessageGroupId]

(***************************************************************************)
(* handler, path 2 (index.py:88-140): a direct invocation from Slack.      *)
(***************************************************************************)
\* A handler that has lost its handshake short-circuit.
HandshakeTestNever(body) == "not"

\* index.py:106-118: "handshake", "not" (no handshake), or the exception
\* that escapes (only json.JSONDecodeError is caught).
HandshakeTest(body) ==
    IF ~Truthy(body) THEN "not"
    ELSE LET parsed == json_loads(body.v)
         IN IF ~parsed.ok THEN "not"
            ELSE IF ~IsDict(parsed.val) THEN "AttributeError"
            ELSE IF Get(parsed.val, "type") = S("url_verification") THEN "handshake"
            ELSE "not"

\* An enqueue step that acknowledges whatever send_message did.
EnqueueOrProcessSwallowing(event, event_type, url, aws_request_id, sqs_up, replay) ==
    IF Truthy(url)
    THEN LET group == IF EndsWithFifo(url) THEN aws_request_id ELSE PyNone
             body == PyStr(json_dumps(event))
             r == send_message(url, body, group, sqs_up)
         IN Returned(event_type, Response(200, {}, PyStr(<<>>)),
                     IF r.ok THEN << Message(url, body, group) >> ELSE <<>>,
                     << "sqs.send_message" >>)
    ELSE IF replay.kind = "raise"
    THEN Raised(event_type, "ReplayError", <<>>, << "slack_handler.handle" >>)
    ELSE Returned(event_type, Response(replay.statusCode, {}, PyStr(<<>>)),
                  <<>>, << "slack_handler.handle" >>)

\* index.py:120-140
EnqueueOrProcess(event, event_type, url, aws_request_id, sqs_up, replay) ==
    IF Truthy(url)
    THEN LET group == IF EndsWithFifo(url) THEN aws_request_id ELSE PyNone
             body == PyStr(json_dumps(event))
             r == send_message(url, body, group, sqs_up)
         IN IF r.ok
            THEN Returned(event_type, Response(200, {}, PyStr(<<>>)),
                          << Message(url, body, group) >>, << "sqs.send_message" >>)
            ELSE Raised(event_type, r.exc, <<>>, << "sqs.send_message" >>)
    ELSE IF replay.kind = "raise"
    THEN Raised(event_type, "ReplayError", <<>>, << "slack_handler.handle" >>)
    ELSE Returned(event_type, Response(replay.statusCode, {}, PyStr(<<>>)),
                  <<>>, << "slack_handler.handle" >>)

\* A handler that looks for the handshake before it looks at the class.
HttpPathBodyFirst(event, url, aws_request_id, sqs_up, replay) ==
    LET event_type == detect_event_type(event)
        body == Get(event, "body")
        test == HandshakeTest(body)
    IN CASE test = "handshake" ->
              Returned(event_type,
                       Response(200, {<<"x-slack-no-retry", "1">>},
                                Get(json_loads(body.v).val, "challenge")),
                       <<>>, <<>>)
         [] test = "not" /\ event_type = "unknown" ->
              Returned(event_type, Response(400, {}, S("Unknown event type")), <<>>, <<>>)
         [] test = "not" ->
              EnqueueOrProcess(event, event_type, url, aws_request_id, sqs_up, replay)
         [] OTHER -> Raised(event_type, test, <<>>, <<>>)

HttpPath(event, url, aws_request_id, sqs_up, replay) ==
    LET event_type == detect_event_type(event)
    IN IF event_type \notin {"function_url", "api_gateway_v1", "api_gateway_v2"}
       THEN Returned(event_type, Response(400, {}, S("Unknown event type")), <<>>, <<>>)
       ELSE LET body == Get(event, "body")
                test == HandshakeTest(body)
            IN CASE test = "handshake" ->
                      Returned(event_type,
                               Response(200, {<<"x-slack-no-retry", "1">>},
                                        Get(json_loads(body.v).val, "challenge")),
                               <<>>, <<>>)
                 [] test = "not" ->
                      EnqueueOrProcess(event, event_type, url, aws_request_id, sqs_up, replay)
                 [] OTHER -> Raised(event_type, test, <<>>, <<>>)

(***************************************************************************)
(* record_handler (index.py:37-60): one SQS record, whose body holds the   *)
(* original envelope.  It returns nothing; it raises what json.loads, the  *)
(* logging expression or slack_handler.handle raise.                       *)
(***************************************************************************)
\* index.py:46-49: the .get chain raises AttributeError on a value that is
\* not a dict.
LogEventTypeRaises(original_event) ==
    \/ ~IsDict(original_event)
    \/ LET rc == GetOr(original_event, "requestContext", EmptyDict)
       IN \/ ~IsDict(rc)
          \/ ~IsDict(GetOr(rc, "http", EmptyDict))

\* What handling one record did: it returned (ok) or raised exc; the
\* envelope it decoded; the status code it logged; its external calls in
\* order; the messages it sent to the queue.
RecordResult(ok, exc, original_event, status_code, calls, sent) ==
    [ok |-> ok, exc |-> exc, original_event |-> original_event, status_code |-> status_code,
     calls |-> calls, sent |-> sent]

\* A record handler that takes a response other than 200 for a failure.
record_handler_checks_status(record, replay) ==
    LET parsed == json_loads(record.v[K("body")].v)
        replayed == << "register_listeners", "slack_handler.handle" >>
    IN IF ~parsed.ok THEN RecordResult(FALSE, "JSONDecodeError", PyNone, 0, <<>>, <<>>)
       ELSE IF replay.kind = "raise"
       THEN RecordResult(FALSE, "ReplayError", parsed.val, 0, replayed, <<>>)
       ELSE RecordResult(replay.statusCode = 200,
                         IF replay.statusCode = 200 THEN "" ELSE "StatusError",
                         parsed.val, replay.statusCode, replayed, <<>>)

\* A record handler that puts the envelope through the enqueue step again.
record_handler_requeue(record, replay) ==
    LET parsed == json_loads(record.v[K("body")].v)
        body == record.v[K("body")]
    IN RecordResult(parsed.ok, IF parsed.ok THEN "" ELSE "JSONDecodeError", parsed.val, 0,
                    << "sqs.send_message" >>,
                    << Message(FifoQueueUrl, body, RequestId(0)) >>)

record_handler(record, replay) ==
    LET parsed == json_loads(record.v[K("body")].v)
        original_event == parsed.val
        replayed == << "register_listeners", "slack_handler.handle" >>
    IN IF ~parsed.ok THEN RecordResult(FALSE, "JSONDecodeError", PyNone, 0, <<>>, <<>>)
       ELSE IF LogEventTypeRaises(original_event)
       THEN RecordResult(FALSE, "AttributeError", original_event, 0, <<>>, <<>>)
       ELSE IF replay.kind = "raise"
       THEN RecordResult(FALSE, "ReplayError", original_event, 0, replayed, <<>>)
       ELSE RecordResult(TRUE, "", original_event, replay.statusCode, replayed, <<>>)

(***************************************************************************)
(* handler, path 1 (index.py:73-86): an SQS batch.                         *)
(***************************************************************************)
\* index.py:74-77: "yes", "no", or the exception the test raises.
IsSqsBatch(event) ==
    IF ~HasKey(event, "Records") THEN "no"
    ELSE LET records == event.v[K("Records")]
         IN IF records.t # "list" THEN "TypeError"
            ELSE IF records.v = <<>> THEN "IndexError"
            ELSE IF ~IsDict(records.v[1]) THEN "AttributeError"
            ELSE IF Get(records.v[1], "eventSource") = S("aws:sqs") THEN "yes"
            ELSE "no"

\* A loop without the per-record try/except: the first failure ends it, and
\* the records after it are never attempted.
ProcessRecordsAbort(records, replays) ==
    [i \in 1..Len(records) |->
        IF \E j \in 1..(i - 1) : ~record_handler(records[j], replays[j]).ok
        THEN RecordResult(FALSE, "NotAttempted", PyNone, 0, <<>>, <<>>)
        ELSE record_handler(records[i], replays[i])]

\* The processor's loop: each record is handled inside its own try/except,
\* so a record's result is that of its own record_handler call.
ProcessRecords(records, replays) ==
    [i \in 1..Len(records) |-> record_handler(records[i], replays[i])]

\* The messages the handling of the records sent, in batch order.
RECURSIVE SentBy(_)
SentBy(results) ==
    IF results = <<>> THEN <<>> ELSE results[1].sent \o SentBy(Tail(results))

\* The messageId of every record whose handling raised, in batch order.
RECURSIVE FailedIds(_, _)
FailedIds(records, results) ==
    IF records = <<>> THEN <<>>
    ELSE (IF results[1].ok THEN <<>> ELSE << records[1].v[K("messageId")] >>)
         \o FailedIds(Tail(records), Tail(results))

\* process_partial_response (index.py:81-86): the partial-failure report,
\* {"batchItemFailures": [...]}; when every record failed the processor
\* raises BatchProcessingError instead.
process_partial_response(event, replays) ==
    LET records == event.v[K("Records")].v
        results == ProcessRecords(records, replays)
        failures == FailedIds(records, results)
    IN IF Len(failures) = Len(records)
       THEN [kind |-> "raise", exc |-> "BatchProcessingError", results |-> results,
             batchItemFailures |-> <<>>]
       ELSE [kind |-> "return", exc |-> "", results |-> results,
             batchItemFailures |-> failures]

(***************************************************************************)
(* handler (index.py:65-140): which path an envelope takes and what the    *)
(* invocation does.  env is the invocation's environment.                  *)
(***************************************************************************)
handler(event, url, aws_request_id, env) ==
    LET test == IsSqsBatch(event)
    IN CASE test = "yes" ->
              [path |-> "batch", out |-> process_partial_response(event, env.replays)]
         [] test = "no" ->
              [path |-> "http",
               out |-> HttpPath(event, url, aws_request_id, env.sqs_up, env.replay)]
         [] OTHER ->
              [path |-> "none", out |-> Raised("", test, <<>>, <<>>)]

(***************************************************************************)
(* The durable queue and the event source mapping that feeds handler.      *)
(***************************************************************************)
MessageId(n) == PyStr(<< <<"mid", n>> >>)

\* A message as the queue keeps it: visible until a batch that handled it
\* reports it successful; receives counts its deliveries.
QueuedMessage(m) ==
    [body |-> m.MessageBody, group |-> m.MessageGroupId, state |-> "visible", receives |-> 0]

\* The batch envelope the event source mapping builds for the messages ids.
SqsRecord(n) ==
    PyDict((K("messageId") :> MessageId(n)) @@ (K("body") :> queue[n].body)
           @@ (K("eventSource") :> S("aws:sqs")))
SqsEvent(ids) == PyDict(K("Records") :> PyList([i \in 1..Len(ids) |-> SqsRecord(ids[i])]))

\* A settlement that ignores the report: the whole batch is deleted.
RemovedAll(ids, out) == {ids[i] : i \in 1..Len(ids)}

\* The messages of a batch the event source mapping deletes once handler is
\* done: none when handler raised, otherwise those the report does not name.
Removed(ids, out) ==
    IF out.kind = "raise" THEN {}
    ELSE { ids[i] : i \in { j \in 1..Len(ids) :
              \A f \in 1..Len(out.batchItemFailures) :
                  out.batchItemFailures[f] # MessageId(ids[j]) } }

\* The strictly increasing sequence of the members of a set of numbers.
RECURSIVE Sorted(_)
Sorted(set) ==
    IF set = {} THEN <<>>
    ELSE LET m == CHOOSE a \in set : \A b \in set : a <= b
         IN << m >> \o Sorted(set \ {m})

NoInvocation ==
    [event |-> PyNone, path |-> "none",
     env |-> [sqs_up |-> TRUE, replay |-> [kind |-> "return", statusCode |-> 200]],
     out |-> Returned("", NoResponse, <<>>, <<>>)]
NoBatch == [ids |-> <<>>, replays |-> <<>>,
            out |-> [kind |-> "return", exc |-> "", results |-> <<>>,
                     batchItemFailures |-> <<>>]]

(***************************************************************************)
(* markdown_to_slack (llm_caller.py:20-45).  Text is a sequence of         *)
(* characters.                                                             *)
(***************************************************************************)
\* \s
IsSpace(c) == c \in {" ", "\n", "\t"}

\* Whether s holds the characters d from position i on.
HasAt(s, i, d) ==
    /\ i >= 1
    /\ i + Len(d) - 1 <= Len(s)
    /\ \A j \in 1..Len(d) : s[i + j - 1] = d[j]

\* The smallest member of a non-empty set of numbers.
Min(set) == CHOOSE a \in set : \A b \in set : a <= b

\* The backtick character (a TLA+ string cannot hold one).
BT == "<backtick>"
Fence == << BT, BT, BT >>

\* The length of the match of the split pattern at position i of s, 0 when
\* there is none.  The pattern is a fenced block (three backticks, one or
\* more characters of any kind, as few as possible, three backticks) or
\* else an inline span (a backtick, one or more characters other than a
\* backtick and a newline, a backtick).
CodeSpanAt(s, i) ==
    LET closes == { j \in (i + 4)..Len(s) : HasAt(s, j, Fence) }
        ends == { k \in (i + 2)..Len(s) :
                    /\ s[k] = BT
                    /\ \A m \in (i + 1)..(k - 1) : s[m] \notin {BT, "\n"} }
    IN IF HasAt(s, i, Fence) /\ closes # {} THEN Min(closes) + 3 - i
       ELSE IF HasAt(s, i, << BT >>) /\ ends # {} THEN Min(ends) + 1 - i
       ELSE 0

\* re.split(pattern, content) from position i on, the text before i since
\* position start not yet split off: the text between the spans and the
\* spans themselves (the group of the pattern), alternating.
RECURSIVE SplitFrom(_, _, _)
SplitFrom(s, start, i) ==
    IF i > Len(s) THEN << SubSeq(s, start, Len(s)) >>
    ELSE LET n == CodeSpanAt(s, i)
         IN IF n > 0
            THEN << SubSeq(s, start, i - 1), SubSeq(s, i, i + n - 1) >>
                 \o SplitFrom(s, i + n, i + n)
            ELSE SplitFrom(s, start, i + 1)

\* The five substitutions, in the order of the loop.  A pattern is
\*   (?<![pre]) delim (?!\s) ([^excl\n]+?) (?<!\s) delim (?![post])
\* and its replacement is  left \1 right.
Substitutions ==
    << [delim |-> << "*", "*", "*" >>, excl |-> "*", pre |-> {}, post |-> {},
        left |-> << "_", "*" >>, right |-> << "*", "_" >>],
       [delim |-> << "*" >>, excl |-> "*", pre |-> {"*", "_"}, post |-> {"*", "_"},
        left |-> << "_" >>, right |-> << "_" >>],
       [delim |-> << "*", "*" >>, excl |-> "*", pre |-> {}, post |-> {},
        left |-> << "*" >>, right |-> << "*" >>],
       [delim |-> << "_", "_" >>, excl |-> "_", pre |-> {}, post |-> {},
        left |-> << "*" >>, right |-> << "*" >>],
       [delim |-> << "~", "~" >>, excl |-> "~", pre |-> {}, post |-> {},
        left |-> << "~" >>, right |-> << "~" >> ] >>

\* The position of the closing delimiter of the match of pat that starts at
\* position i of s, 0 when there is no match at i.  The body is the
\* shortest that lets the rest of the pattern match.
ClosingAt(s, i, pat) ==
    LET d == Len(pat.delim)
        b == i + d
        closings == { e \in (b + 1)..Len(s) :
                        /\ \A m \in b..(e - 1) : s[m] \notin {pat.excl, "\n"}
                        /\ ~IsSpace(s[e - 1])
                        /\ HasAt(s, e, pat.delim)
                        /\ (e + d <= Len(s)) => s[e + d] \notin pat.post }
    IN IF /\ (i > 1) => s[i - 1] \notin pat.pre
          /\ HasAt(s, i, pat.delim)
          /\ b <= Len(s)
          /\ ~IsSpace(s[b])
          /\ closings # {}
       THEN Min(closings)
       ELSE 0

\* re.sub(pat, replacement, s) from position i on: the leftmost matches,
\* none overlapping another.
RECURSIVE SubFrom(_, _, _)
SubFrom(s, i, pat) ==
    IF i > Len(s) THEN <<>>
    ELSE LET e == ClosingAt(s, i, pat)
             d == Len(pat.delim)
         IN IF e > 0
            THEN pat.left \o SubSeq(s, i + d, e - 1) \o pat.right \o SubFrom(s, e + d, pat)
            ELSE << s[i] >> \o SubFrom(s, i + 1, pat)

\* The inner loop (llm_caller.py:30-43): the substitutions n.. applied in turn.
RECURSIVE Rewrite(_, _)
Rewrite(part, n) ==
    IF n > Len(Substitutions) THEN part
    ELSE Rewrite(SubFrom(part, 1, Substitutions[n]), n + 1)

\* The outer loop (llm_caller.py:26-44): a part that starts with a backtick
\* is kept, any other is rewritten.
RECURSIVE JoinParts(_)
JoinParts(parts) ==
    IF parts = <<>> THEN <<>>
    ELSE (IF HasAt(parts[1], 1, Fence) \/ HasAt(parts[1], 1, << BT >>)
          THEN parts[1]
          ELSE Rewrite(parts[1], 1))
         \o JoinParts(Tail(parts))

markdown_to_slack(content) == JoinParts(SplitFrom(content, 1, 1))

\* The chunks markdown_to_slack is called with here: every text of at most
\* MaxLen characters over Alphabet.
MaxLen == 5
Alphabet == {BT, "*", "_", "a", " "}
Texts == UNION { [1..n -> Alphabet] : n \in 0..MaxLen }

NoMd == [content |-> <<>>, done |-> FALSE, result |-> <<>>]
MdIdle == md = NoMd

\* One call of markdown_to_slack.
Transcode ==
    /\ ~md.done
    /\ md' = [md EXCEPT !.done = TRUE, !.result = markdown_to_slack(md.content)]
    /\ UNCHANGED <<routerVars, bridgeVars, pml>>

(***************************************************************************)
(* call_bedrock_stream (llm_caller.py:48-139).  The events of the stream   *)
(* are dicts with one key; a content delta carries its text.               *)
(***************************************************************************)
\* How many events a stream holds.
MaxEvents == 3

Hello == << "H", "e", "l", "l", "o", " " >>
World == << "*", "w", "o", "r", "l", "d", "*" >>
Code == << BT, "*", "x", "*", BT >>

Delta(text) == [contentBlockDelta |-> [delta |-> [text |-> text]]]
MessageStop == [messageStop |-> [stopReason |-> "end_turn"]]
Usage ==
    [metadata |-> [usage |-> [inputTokens |-> "in", outputTokens |-> "out",
                              totalTokens |-> "total"]]]
Metrics == [metadata |-> [metrics |-> [latencyMs |-> "ms"]]]
MessageStart == [messageStart |-> [role |-> "assistant"]]

Events == {Delta(Hello), Delta(World), Delta(Code), MessageStop, Usage, Metrics, MessageStart}

\* response.get("stream"): a stream of at most MaxEvents events, or
\* nothing (present = FALSE).
Streams ==
    { [present |-> TRUE, events |-> e] : e \in UNION { [1..n -> Events] : n \in 0..MaxEvents } }
NoStream == [present |-> FALSE, events |-> <<>>]

\* One external call: what was called, with what text, and whether it
\* returned (ok) or raised.
Call(op, text, ok) == [op |-> op, text |-> text, ok |-> ok]

\* A loop body that forwards the delta as it came, untranscoded.
HandleEventRaw(event, append_ok) ==
    (IF "contentBlockDelta" \in DOMAIN event
     THEN << Call("append", event.contentBlockDelta.delta.text, append_ok) >>
     ELSE <<>>)
    \o (IF append_ok /\ "messageStop" \in DOMAIN event
        THEN << Call("log_stop", <<>>, TRUE) >> ELSE <<>>)
    \o (IF append_ok /\ "metadata" \in DOMAIN event /\ "usage" \in DOMAIN event.metadata
        THEN << Call("log_usage", <<>>, TRUE) >> ELSE <<>>)

\* A loop body that also ends the Slack stream when Bedrock says stop.
HandleEventStopping(event, append_ok) ==
    (IF "contentBlockDelta" \in DOMAIN event
     THEN << Call("append", markdown_to_slack(event.contentBlockDelta.delta.text),
                  append_ok) >>
     ELSE <<>>)
    \o (IF append_ok /\ "messageStop" \in DOMAIN event
        THEN << Call("log_stop", <<>>, TRUE), Call("stop", <<>>, TRUE) >> ELSE <<>>)
    \o (IF append_ok /\ "metadata" \in DOMAIN event /\ "usage" \in DOMAIN event.metadata
        THEN << Call("log_usage", <<>>, TRUE) >> ELSE <<>>)

\* The loop body (llm_caller.py:111-130): the calls made for one event.  An
\* append that raises ends the body.
HandleEvent(event, append_ok) ==
    (IF "contentBlockDelta" \in DOMAIN event
     THEN << Call("append", markdown_to_slack(event.contentBlockDelta.delta.text),
                  append_ok) >>
     ELSE <<>>)
    \o (IF append_ok /\ "messageStop" \in DOMAIN event
        THEN << Call("log_stop", <<>>, TRUE) >> ELSE <<>>)
    \o (IF append_ok /\ "metadata" \in DOMAIN event /\ "usage" \in DOMAIN event.metadata
        THEN << Call("log_usage", <<>>, TRUE) >> ELSE <<>>)

\* Whether the calls of a loop body all returned.
AllOk(calls) == \A i \in 1..Len(calls) : calls[i].ok

BridgeIdle ==
    /\ stream = NoStream
    /\ pc = "idle"
    /\ pos = 0
    /\ trace = <<>>

BridgeInit ==
    /\ stream \in Streams \cup {NoStream}
    /\ pc = "start"
    /\ pos = 0
    /\ trace = <<>>

\* A bridge that carries on to the Slack stream when Bedrock refused.
ConverseStreamCarriesOn ==
    /\ pc = "start"
    /\ \E ok \in BOOLEAN :
          /\ trace' = Append(trace, Call("converse_stream", <<>>, ok))
          /\ pc' = "model_open"
    /\ UNCHANGED <<routerVars, stream, pos, pml, md>>

\* llm_caller.py:90-95: the Bedrock stream is opened, or the call raises.
ConverseStream ==
    /\ pc = "start"
    /\ \E ok \in BOOLEAN :
          /\ trace' = Append(trace, Call("converse_stream", <<>>, ok))
          /\ pc' = IF ok THEN "model_open" ELSE "raised"
    /\ UNCHANGED <<routerVars, stream, pos, pml, md>>

\* llm_caller.py:99-104: the Slack stream is opened, or the call raises.
ChatStream ==
    /\ pc = "model_open"
    /\ \E ok \in BOOLEAN :
          /\ trace' = Append(trace, Call("chat_stream", <<>>, ok))
          /\ pc' = IF ok THEN "streaming" ELSE "raised"
    /\ UNCHANGED <<routerVars, stream, pos, pml, md>>

\* llm_caller.py:110-130: the loop takes the next event (or the stream
\* raises) and handles it.
NextEvent ==
    /\ pc = "streaming"
    /\ stream.present
    /\ pos < Len(stream.events)
    /\ \E read_ok \in BOOLEAN, append_ok \in BOOLEAN :
          LET calls == IF read_ok
                       THEN << Call("next", <<>>, TRUE) >>
                            \o HandleEvent(stream.events[pos + 1], append_ok)
                       ELSE << Call("next", <<>>, FALSE) >>
          IN /\ trace' = trace \o calls
             /\ pos' = IF read_ok THEN pos + 1 ELSE pos
             /\ pc' = IF AllOk(calls) THEN "streaming" ELSE "raised"
    /\ UNCHANGED <<routerVars, stream, pml, md>>

\* llm_caller.py:110, 133-135: the stream is exhausted (or raises instead
\* of ending, or there was none); the Slack stream is stopped and the call
\* returns.
StreamerStop ==
    /\ pc = "streaming"
    /\ ~stream.present \/ pos = Len(stream.events)
    /\ \E read_ok \in BOOLEAN, stop_ok \in BOOLEAN :
          LET calls == IF stream.present /\ ~read_ok
                       THEN << Call("next", <<>>, FALSE) >>
                       ELSE << Call("stop", <<>>, stop_ok) >>
          IN /\ trace' = trace \o calls
             /\ pc' = IF AllOk(calls) THEN "returned" ELSE "raised"
    /\ UNCHANGED <<routerVars, stream, pos, pml, md>>

(***************************************************************************)
(* process_message_lazily (assistant.py:18-124).  Its environment says     *)
(* what each call it makes does: "ok", or the error it raises.             *)
(***************************************************************************)
SummaryPrompt == "Can you generate a brief summary of the referred channel?"
\* payload["text"]: the prompt, an empty text, None, another text.
NoText == "<None>"
UserMessages == {SummaryPrompt, "", NoText, "Hello"}

PmlEnvironments ==
    [history : {"ok", "not_in_channel", "error"},
     join : {"ok", "error"},
     refetch : {"ok", "error"},
     replies : {"ok", "error"},
     bridge : {"ok", "error"}]

PmlReturned(calls) == [kind |-> "return", calls |-> calls]
PmlRaised(calls) == [kind |-> "raise", calls |-> calls]

\* channel_history.get("messages"), newest first: who wrote each message
\* (NoText when it has no user) and its text.
ChannelHistories ==
    { <<>>,
      << [user |-> "U1", text |-> "hi"] >>,
      << [user |-> "U2", text |-> "bye"], [user |-> NoText, text |-> "joined"],
         [user |-> "U1", text |-> "hi"] >> }

\* assistant.py:64-67: the prompt, as its lines: the request, then one line
\* for each message that has a user, oldest first.
RECURSIVE PromptLines(_)
PromptLines(messages) ==
    IF messages = <<>> THEN <<>>
    ELSE PromptLines(Tail(messages))
         \o (IF messages[1].user # NoText THEN << messages[1] >> ELSE <<>>)

\* assistant.py:68: messages_in_thread of the summary path.
SummaryMessages(messages) ==
    << [role |-> "user",
        content |-> << [user |-> NoText, text |-> "summary request"] >>
                    \o PromptLines(messages)] >>

\* A summary path that joins and fetches again whatever the first fetch
\* failed with.
SummaryPathAlwaysJoins(env) ==
    LET fetched ==
          IF env.history = "ok" THEN [ok |-> TRUE, calls |-> << "conversations_history" >>]
          ELSE IF env.join # "ok"
               THEN [ok |-> FALSE,
                     calls |-> << "conversations_history", "conversations_join" >>]
               ELSE [ok |-> env.refetch = "ok",
                     calls |-> << "conversations_history", "conversations_join",
                                  "conversations_history" >>]
        before == << "get_thread_context" >> \o fetched.calls
    IN IF ~fetched.ok THEN PmlRaised(before)
       ELSE IF env.bridge = "ok"
       THEN PmlReturned(before \o << "set_status", "call_bedrock_stream" >>)
       ELSE PmlRaised(before \o << "set_status", "call_bedrock_stream" >>)

\* assistant.py:44-82: the summary of the referred channel.
SummaryPath(env) ==
    LET fetched ==
          IF env.history = "ok" THEN [ok |-> TRUE, calls |-> << "conversations_history" >>]
          ELSE IF env.history = "not_in_channel"
          THEN IF env.join # "ok"
               THEN [ok |-> FALSE,
                     calls |-> << "conversations_history", "conversations_join" >>]
               ELSE [ok |-> env.refetch = "ok",
                     calls |-> << "conversations_history", "conversations_join",
                                  "conversations_history" >>]
          ELSE [ok |-> FALSE, calls |-> << "conversations_history" >>]
        before == << "get_thread_context" >> \o fetched.calls
    IN IF ~fetched.ok THEN PmlRaised(before)
       ELSE IF env.bridge = "ok"
       THEN PmlReturned(before \o << "set_status", "call_bedrock_stream" >>)
       ELSE PmlRaised(before \o << "set_status", "call_bedrock_stream" >>)

\* assistant.py:88-124: the reply in the thread; whatever raises inside the
\* try is answered with the apology.
ReplyPath(env) ==
    IF env.replies # "ok" THEN PmlReturned(<< "conversations_replies", "say" >>)
    ELSE IF env.bridge = "ok"
    THEN PmlReturned(<< "conversations_replies", "set_status", "call_bedrock_stream" >>)
    ELSE PmlReturned(<< "conversations_replies", "set_status", "call_bedrock_stream",
                        "say" >>)

process_message_lazily(user_message, env) ==
    IF user_message = SummaryPrompt THEN SummaryPath(env)
    ELSE IF user_message \in {"", NoText} THEN PmlReturned(<<>>)
    ELSE ReplyPath(env)

NoPml == [user_message |-> "", env |-> CHOOSE e \in PmlEnvironments : TRUE,
          history |-> <<>>, done |-> FALSE, out |-> PmlReturned(<<>>), messages |-> <<>>]

\* Whether calls holds a call of name.
Called(calls, name) == \E i \in 1..Len(calls) : calls[i] = name

PmlIdle == pml = NoPml

\* The listener is run once for a user message.
ProcessMessage ==
    /\ ~pml.done
    /\ \E user_message \in UserMessages, env \in PmlEnvironments,
          history \in ChannelHistories :
          LET out == process_message_lazily(user_message, env)
          IN pml' = [user_message |-> user_message, env |-> env, history |-> history,
                     done |-> TRUE, out |-> out,
                     messages |-> IF /\ user_message = SummaryPrompt
                                     /\ Called(out.calls, "call_bedrock_stream")
                                  THEN SummaryMessages(history) ELSE <<>>]
    /\ UNCHANGED <<routerVars, bridgeVars, md>>

(***************************************************************************)
(* Actions.                                                                *)
(***************************************************************************)
\* Slack (or anyone) invokes the function with an envelope over HTTP.
HttpInvoke(event, sqs_up, replay) ==
    LET h == handler(event, queue_url, RequestId(invocations + 1),
                     [sqs_up |-> sqs_up, replay |-> replay, replays |-> <<>>])
    IN /\ h.path # "batch"
       /\ last' = [event |-> event, path |-> h.path,
                   env |-> [sqs_up |-> sqs_up, replay |-> replay], out |-> h.out]
       /\ queue' = queue \o [i \in 1..Len(h.out.sent) |-> QueuedMessage(h.out.sent[i])]
       /\ invocations' = invocations + 1
       /\ UNCHANGED <<queue_url, batch, batches, handled, bridgeVars, pml, md>>

\* The event source mapping delivers the visible messages ids as one batch;
\* handler runs to its end and the mapping settles the batch.
BatchInvoke(ids, replays) ==
    LET h == handler(SqsEvent(ids), queue_url, RequestId(0),
                     [sqs_up |-> TRUE, replay |-> replays[1], replays |-> replays])
        gone == Removed(ids, h.out)
        members == {ids[i] : i \in 1..Len(ids)}
    IN /\ h.path = "batch"
       /\ batch' = [ids |-> ids, replays |-> replays, out |-> h.out]
       /\ batches' = batches + 1
       /\ queue' = [n \in DOMAIN queue |->
                      IF n \in members
                      THEN [queue[n] EXCEPT !.receives = @ + 1,
                                            !.state = IF n \in gone THEN "deleted" ELSE "visible"]
                      ELSE queue[n]]
                   \o [i \in 1..Len(SentBy(h.out.results)) |->
                         QueuedMessage(SentBy(h.out.results)[i])]
       /\ handled' = handled \cup {ids[i] : i \in {j \in 1..Len(ids) : h.out.results[j].ok}}
       /\ UNCHANGED <<queue_url, invocations, last, bridgeVars, pml, md>>

(***************************************************************************)
(* Spec: the life of queued messages.  HTTP invocations with a few         *)
(* envelopes fill the queue; batches empty it.                             *)
(***************************************************************************)
\* How many HTTP invocations a run holds.
MaxInvocations == 2

FunctionUrlContext ==
    PyDict((K("http") :> PyDict(K("method") :> S("POST")))
           @@ (K("domainName") :> S("abc.lambda-url.eu-west-1.on.aws")))
GatewayV2Context == PyDict(K("http") :> PyDict(K("method") :> S("POST")))
GatewayV1Context == PyDict(K("httpMethod") :> S("POST"))

LifecycleEnvelopes ==
    { Envelope(FunctionUrlContext, NoKey, EventCallbackBody),
      Envelope(GatewayV1Context, S("POST"), FormBody),
      Envelope(GatewayV2Context, NoKey, HandshakeBody),
      Envelope(NoKey, NoKey, EventCallbackBody) }

\* The replay outcome is an input of the inline path only, the state of SQS of
\* the queued path only; the other one is held fixed.
InlineReplays == IF Truthy(queue_url) THEN {[kind |-> "return", statusCode |-> 200]}
                 ELSE ReplayOutcomes
SqsStates == IF Truthy(queue_url) THEN BOOLEAN ELSE {TRUE}

Deliverable == {n \in DOMAIN queue : queue[n].state = "visible"}

RouterInit ==
    /\ queue_url \in QueueUrls
    /\ invocations = 0
    /\ last = NoInvocation
    /\ queue = <<>>
    /\ batch = NoBatch
    /\ batches = 0
    /\ handled = {}

Init == RouterInit /\ BridgeIdle /\ PmlIdle /\ MdIdle

Receive ==
    /\ invocations < MaxInvocations
    /\ \E event \in LifecycleEnvelopes, sqs_up \in SqsStates, replay \in InlineReplays :
          HttpInvoke(event, sqs_up, replay)

Deliver ==
    /\ batches < MaxBatches
    /\ \E set \in (SUBSET Deliverable) \ {{}} :
          \E replays \in [1..Cardinality(set) -> ReplayOutcomes] :
             BatchInvoke(Sorted(set), replays)

Next == Receive \/ Deliver

Spec == Init /\ [][Next]_vars

(***************************************************************************)
(* SpecHandler: one HTTP invocation, with every envelope.                  *)
(***************************************************************************)
\* Envelopes that carry Records without being a batch from the queue.
RecordsEnvelopes ==
    { PyDict(K("Records") :> PyList(<<>>)),
      PyDict(K("Records") :> PyList(<< PyDict(K("eventSource") :> S("aws:sns")) >>)) }

InvokeOnce ==
    /\ invocations = 0
    /\ \E event \in Envelopes \cup RecordsEnvelopes, sqs_up \in BOOLEAN,
          replay \in ReplayOutcomes :
          HttpInvoke(event, sqs_up, replay)

SpecHandler == Init /\ [][InvokeOnce]_vars

(***************************************************************************)
(* SpecBridge: one call of call_bedrock_stream, with every stream.         *)
(***************************************************************************)
BridgeNext == ConverseStream \/ ChatStream \/ NextEvent \/ StreamerStop

InitBridge == RouterInit /\ queue_url = PyNone /\ BridgeInit /\ PmlIdle /\ MdIdle

SpecBridge == InitBridge /\ [][BridgeNext]_vars

(***************************************************************************)
(* SpecPml: one call of process_message_lazily.                            *)
(***************************************************************************)
InitPml == RouterInit /\ queue_url = PyNone /\ BridgeIdle /\ PmlIdle /\ MdIdle

SpecPml == InitPml /\ [][ProcessMessage]_vars

(***************************************************************************)
(* SpecMd: one call of markdown_to_slack, with every chunk.                *)
(***************************************************************************)
InitMd ==
    /\ RouterInit /\ queue_url = PyNone /\ BridgeIdle /\ PmlIdle
    /\ md \in { [content |-> c, done |-> FALSE, result |-> <<>>] : c \in Texts }

SpecMd == InitMd /\ [][Transcode]_vars

(***************************************************************************)
(* Properties of the router and the batch processor.                       *)
(***************************************************************************)
RecognizedTypes == {"function_url", "api_gateway_v1", "api_gateway_v2"}
HandshakeBodies == {HandshakeBody, HandshakeNoChallengeBody}

\* The last invocation took the HTTP path with an envelope of a recognized
\* transport shape.
RecognizedInvocation ==
    /\ invocations > 0
    /\ last.path = "http"
    /\ last.out.event_type \in RecognizedTypes

LastBody == GetOr(last.event, "body", NoKey)

\* The challenge a handshake body carries (None when it carries none).
ChallengeOf(body) == IF body = HandshakeBody THEN S("abc123") ELSE PyNone

\* C1: a recognized-shape envelope whose body declares url_verification is
\* answered 200 with the challenge as the body and the no-retry header; no
\* message is sent, the queue stays as it was and the processing path is
\* not called, with or without a queue configured.
C1_HandshakeAnswered ==
    (RecognizedInvocation /\ LastBody \in HandshakeBodies) =>
        /\ last.out.kind = "return"
        /\ last.out.response =
              Response(200, {<<"x-slack-no-retry", "1">>}, ChallengeOf(LastBody))
        /\ last.out.sent = <<>>
        /\ last.out.calls = <<>>
        /\ queue = <<>>

C1_Witness ==
    /\ RecognizedInvocation
    /\ LastBody = HandshakeBody
    /\ queue_url = FifoQueueUrl
    /\ last.out.event_type = "api_gateway_v1"
    /\ last.out.response.body = S("abc123")

\* C2: with a queue configured, a recognized, non-handshake envelope is
\* answered 200 with an empty body after exactly one message was enqueued
\* whose payload decodes to the envelope.  Stated for a FIFO queue that
\* accepts the request: the send is then well-formed and SQS is up, so
\* nothing but handler decides the outcome.
C2_EnqueuedVerbatim ==
    (/\ RecognizedInvocation
     /\ LastBody \notin HandshakeBodies
     /\ Truthy(queue_url) /\ EndsWithFifo(queue_url)
     /\ last.env.sqs_up) =>
        /\ last.out.kind = "return"
        /\ last.out.response = Response(200, {}, PyStr(<<>>))
        /\ Len(last.out.sent) = 1
        /\ Len(queue) = 1
        /\ json_loads(queue[1].body.v) = [ok |-> TRUE, val |-> last.event]

\* C3: in a batch, a record is reported failed and left in the queue exactly
\* when its own replay raised; every record is attempted; when handler
\* raises instead of reporting, every record had failed.
BatchIndex == 1..Len(batch.ids)
ReplayRaised(i) == batch.replays[i].kind = "raise"
ReportedFailed(i) ==
    \E f \in 1..Len(batch.out.batchItemFailures) :
        batch.out.batchItemFailures[f] = MessageId(batch.ids[i])

C3_PerRecordOutcome ==
    batches > 0 =>
        /\ Len(batch.out.results) = Len(batch.ids)
        /\ \A i \in BatchIndex :
              /\ batch.out.results[i].exc # "NotAttempted"
              /\ batch.out.results[i].ok <=> ~ReplayRaised(i)
              /\ (batch.out.kind = "return") => (ReportedFailed(i) <=> ReplayRaised(i))
              /\ (batch.out.kind = "raise") => ReplayRaised(i)
              /\ (queue[batch.ids[i]].state = "deleted") <=> ~ReplayRaised(i)

C3_Witness ==
    /\ batches > 0
    /\ Len(batch.ids) = 2
    /\ ReplayRaised(1) /\ ~ReplayRaised(2)
    /\ batch.out.kind = "return"
    /\ batch.out.batchItemFailures = << MessageId(batch.ids[1]) >>
    /\ queue[batch.ids[1]].state = "visible"
    /\ queue[batch.ids[2]].state = "deleted"

\* C4: a message is gone from the queue only if some record carrying it was
\* handled without error, and a message whose record failed in the last
\* batch is still in the queue, visible for the next delivery.
C4_AtLeastOnce ==
    /\ \A n \in DOMAIN queue :
          queue[n].state = "deleted" => (n \in handled /\ queue[n].receives > 0)
    /\ \A i \in BatchIndex :
          ~batch.out.results[i].ok => queue[batch.ids[i]].state = "visible"

\* A message whose first delivery failed and whose second was handled.
C4_Witness ==
    \E n \in DOMAIN queue :
        /\ queue[n].receives = 2
        /\ queue[n].state = "deleted"
        /\ n \in handled
        /\ batch.ids = << n >>

\* C9 as stated: http with a domain attribute is function_url, http without
\* one is api_gateway_v2, neither http nor a legacy method field is unknown.
LastContext == GetOr(last.event, "requestContext", EmptyDict)
NonBatchInvocation == invocations > 0 /\ last.path = "http"

HasDomain == Truthy(Get(LastContext, "domainName"))

C10_LegacyMethod ==
    (/\ NonBatchInvocation
     /\ ~HasKey(LastContext, "http")
     /\ HasKey(LastContext, "httpMethod") \/ HasKey(last.event, "httpMethod"))
        => last.out.event_type = "api_gateway_v1"

(***************************************************************************)
(* Properties of the streaming bridge.                                     *)
(***************************************************************************)
\* The calls of the trace made to op, in order.
RECURSIVE CallsTo(_, _)
CallsTo(calls, ops) ==
    IF calls = <<>> THEN <<>>
    ELSE (IF calls[1].op \in ops THEN << calls[1] >> ELSE <<>>) \o CallsTo(Tail(calls), ops)

\* The texts of the content deltas among events, in order.
RECURSIVE DeltasOf(_)
DeltasOf(events) ==
    IF events = <<>> THEN <<>>
    ELSE (IF "contentBlockDelta" \in DOMAIN events[1]
          THEN << events[1].contentBlockDelta.delta.text >> ELSE <<>>)
         \o DeltasOf(Tail(events))

SinkOpened == \E i \in 1..Len(trace) : trace[i].op = "chat_stream" /\ trace[i].ok
BridgeEnded == pc \in {"returned", "raised"}

\* C5: once the Slack stream is open, it has been stopped exactly once by
\* the time call_bedrock_stream returns or raises.
C5_StoppedOnEveryExit ==
    (BridgeEnded /\ SinkOpened) => Len(CallsTo(trace, {"stop"})) = 1

\* What the three deltas read as in Slack markup.
InSlackMarkup(text) ==
    CASE text = Hello -> Hello
      [] text = World -> << "_", "w", "o", "r", "l", "d", "_" >>
      [] text = Code -> Code

\* C6: the appends are the deltas taken so far, one append per delta, in
\* order, each the transcoding of its own delta; when the call returns the
\* whole stream was taken, and the Slack stream saw nothing but its
\* opening, those appends and its stop.
C6_OneAppendPerDelta ==
    (pc \in {"streaming", "returned"}) =>
        LET deltas == DeltasOf(SubSeq(stream.events, 1, pos))
            appends == CallsTo(trace, {"append"})
        IN /\ Len(appends) = Len(deltas)
           /\ \A i \in 1..Len(deltas) :
                 /\ appends[i].text = markdown_to_slack(deltas[i])
                 /\ appends[i].text = InSlackMarkup(deltas[i])
           /\ (pc = "returned") =>
                 /\ pos = Len(stream.events)
                 /\ Len(CallsTo(trace, {"chat_stream", "append", "stop"}))
                       = Len(deltas) + 2

C6_Witness ==
    /\ pc = "returned"
    /\ stream.events = << Delta(Hello), Delta(World), MessageStop >>
    /\ CallsTo(trace, {"chat_stream", "append", "stop"})
          = << Call("chat_stream", <<>>, TRUE),
               Call("append", Hello, TRUE),
               Call("append", << "_", "w", "o", "r", "l", "d", "_" >>, TRUE),
               Call("stop", <<>>, TRUE) >>

\* C7: the Slack stream is stopped at most once, nothing is called after
\* the stop, and a call that returns has stopped it.
C7_StopOnceAndLast ==
    /\ Len(CallsTo(trace, {"stop"})) <= 1
    /\ \A i \in 1..Len(trace) : trace[i].op = "stop" => i = Len(trace)
    /\ (pc = "returned") =>
          /\ Len(CallsTo(trace, {"stop"})) = 1
          /\ trace[Len(trace)] = Call("stop", <<>>, TRUE)

C7_Witness ==
    /\ pc = "returned"
    /\ stream.events = << Delta(Hello), MessageStop, Delta(World) >>
    /\ Len(CallsTo(trace, {"append"})) = 2
    /\ trace[Len(trace)].op = "stop"
    /\ trace[Len(trace) - 1].op = "append"

(***************************************************************************)
(* Properties of the message listener.                                     *)
(***************************************************************************)
PmlCalls(name) == { i \in 1..Len(pml.out.calls) : pml.out.calls[i] = name }

\* C8: when call_bedrock_stream fails, on either path, the apology is said
\* exactly once and the call is not made again.
C8_ApologyOnFailure ==
    (/\ pml.done
     /\ PmlCalls("call_bedrock_stream") # {}
     /\ pml.env.bridge = "error") =>
        /\ Cardinality(PmlCalls("say")) = 1
        /\ Cardinality(PmlCalls("call_bedrock_stream")) = 1

(***************************************************************************)
(* Properties of the classification step and of the unknown shape.         *)
(***************************************************************************)
EventClasses == {"function_url", "api_gateway_v1", "api_gateway_v2", "unknown"}

\* C11: the classification step never raises: every invocation is either
\* taken as a batch or given exactly one of the four HTTP classes.
C11_ClassificationTotal ==
    invocations > 0 =>
        /\ last.path \in {"batch", "http"}
        /\ last.path = "http" => last.out.event_type \in EventClasses

\* C12: an envelope that is not a batch and that detect_event_type calls
\* unknown is answered 400 "Unknown event type", whatever its body and the
\* queue setting, with no message sent and no call made.
C12_UnknownRejected ==
    (NonBatchInvocation /\ detect_event_type(last.event) = "unknown") =>
        /\ last.out.kind = "return"
        /\ last.out.response = Response(400, {}, S("Unknown event type"))
        /\ last.out.sent = <<>>
        /\ last.out.calls = <<>>
        /\ queue = <<>>

\* An unknown shape carrying a handshake, with a FIFO queue configured.
C12_Witness ==
    /\ NonBatchInvocation
    /\ last.event = Envelope(NoKey, S("POST"), HandshakeBody)
    /\ queue_url = FifoQueueUrl
    /\ last.out.response = Response(400, {}, S("Unknown event type"))

(***************************************************************************)
(* Properties of the transcoder.                                           *)
(***************************************************************************)
\* The parts of a split put together again, the code spans (every second
\* part, the group of the pattern) as they are and every other part with the
\* emphasis substitutions applied.
RECURSIVE SpansKeptRestRewritten(_, _)
SpansKeptRestRewritten(parts, i) ==
    IF i > Len(parts) THEN <<>>
    ELSE (IF i % 2 = 0 THEN parts[i] ELSE Rewrite(parts[i], 1))
         \o SpansKeptRestRewritten(parts, i + 1)

\* C13: the result is the chunk with its code spans unchanged and the
\* substitutions applied to every segment outside them.
C13_OnlyCodeSpansExempt ==
    md.done => md.result = SpansKeptRestRewritten(SplitFrom(md.content, 1, 1), 1)

(***************************************************************************)
(* Properties of the body test and of the replay.                          *)
(***************************************************************************)
\* C14: a recognized-shape envelope whose body is no handshake gets past
\* the handshake test without an error and reaches the enqueue step when a
\* queue is configured, the inline processing step when none is.
C14_NonHandshakeProceeds ==
    (RecognizedInvocation /\ LastBody \notin HandshakeBodies) =>
        last.out.calls = IF Truthy(queue_url) THEN << "sqs.send_message" >>
                         ELSE << "slack_handler.handle" >>

\* C15: handling the records of a batch sends nothing to the queue: no
\* record result holds a sent message or a send_message call, a record
\* handled without error was replayed by slack_handler.handle, and the
\* queue holds no more messages than HTTP invocations have enqueued.
C15_ReplayNeverEnqueues ==
    /\ \A i \in BatchIndex :
          /\ batch.out.results[i].sent = <<>>
          /\ \A c \in 1..Len(batch.out.results[i].calls) :
                batch.out.results[i].calls[c] # "sqs.send_message"
          /\ batch.out.results[i].ok =>
                batch.out.results[i].calls = << "register_listeners", "slack_handler.handle" >>
    /\ Len(queue) <= invocations

\* Two queued envelopes replayed in one batch, both to completion.
C15_Witness ==
    /\ batches > 0
    /\ Len(batch.ids) = 2
    /\ \A i \in BatchIndex :
          /\ batch.out.results[i].ok
          /\ queue[batch.ids[i]].state = "deleted"
    /\ Len(queue) = 2

(***************************************************************************)
(* Properties of the enqueue step.                                         *)
(***************************************************************************)
\* The bodies that are no handshake and that the handshake test lets pass.
PlainBodies == {NoKey, PyNone, PyStr(<<>>), EventCallbackBody, ObjectBody, FormBody}

\* The last invocation reached the enqueue step: a recognized shape, a body
\* that is no handshake, a queue configured.
ReachedEnqueue ==
    /\ RecognizedInvocation
    /\ LastBody \in PlainBodies
    /\ Truthy(queue_url)

\* C16: with SQS accepting requests, the enqueue succeeds on either kind of
\* queue; the message carries the invocation id as its ordering key on a
\* FIFO queue and no ordering key on any other.
C16_OrderingKey ==
    (ReachedEnqueue /\ last.env.sqs_up) =>
        /\ last.out.kind = "return"
        /\ Len(last.out.sent) = 1
        /\ last.out.sent[1].MessageGroupId =
              IF EndsWithFifo(queue_url) THEN RequestId(invocations) ELSE PyNone
        /\ Len(queue) = 1

(***************************************************************************)
(* The order of the calls of the bridge.                                   *)
(***************************************************************************)
\* C17: the first call is converse_stream; chat_stream is the second call
\* and is made only after converse_stream returned; every read of the
\* stream, append and stop comes after chat_stream returned.
C17_OpenModelThenSinkThenRead ==
    /\ trace # <<>> => trace[1].op = "converse_stream"
    /\ \A i \in 1..Len(trace) :
          /\ trace[i].op = "converse_stream" => i = 1
          /\ trace[i].op = "chat_stream" => (i = 2 /\ trace[1].ok)
          /\ trace[i].op \in {"next", "append", "stop", "log_stop", "log_usage"} =>
                /\ i >= 3
                /\ trace[1] = Call("converse_stream", <<>>, TRUE)
                /\ trace[2] = Call("chat_stream", <<>>, TRUE)

\* A call that read a delta and appended it, after both openings.
C17_Witness ==
    /\ Len(trace) >= 4
    /\ trace[1] = Call("converse_stream", <<>>, TRUE)
    /\ trace[2] = Call("chat_stream", <<>>, TRUE)
    /\ trace[3] = Call("next", <<>>, TRUE)
    /\ trace[4] = Call("append", Hello, TRUE)

(***************************************************************************)
(* Properties of the summary path.                                         *)
(***************************************************************************)
SummaryDone == pml.done /\ pml.user_message = SummaryPrompt
Fetches == Cardinality(PmlCalls("conversations_history"))
Joins == Cardinality(PmlCalls("conversations_join"))
BridgeCalled == PmlCalls("call_bedrock_stream") # {}

\* C18: on the summary path a first fetch that fails with not_in_channel
\* is followed by one join and, the join done, one more fetch, and a
\* failure of either propagates; a first fetch that fails otherwise
\* propagates with no join and no second fetch; a first fetch that works is
\* the only one; and the model is called with one turn, of role user.
C18_JoinOnceRefetchOnce ==
    SummaryDone =>
        /\ Fetches <= 2 /\ Joins <= 1
        /\ pml.env.history = "ok" => (Fetches = 1 /\ Joins = 0 /\ BridgeCalled)
        /\ pml.env.history = "error" =>
              (Fetches = 1 /\ Joins = 0 /\ ~BridgeCalled /\ pml.out.kind = "raise")
        /\ pml.env.history = "not_in_channel" =>
              /\ Joins = 1
              /\ Fetches = IF pml.env.join = "ok" THEN 2 ELSE 1
              /\ BridgeCalled <=> (pml.env.join = "ok" /\ pml.env.refetch = "ok")
              /\ ~BridgeCalled => pml.out.kind = "raise"
        /\ BridgeCalled =>
              /\ Len(pml.messages) = 1
              /\ pml.messages[1].role = "user"
              /\ Cardinality(PmlCalls("call_bedrock_stream")) = 1

\* Not a member: one join, a second fetch, then the model is called with
\* the one turn that holds the two authored messages, oldest first.
C18_Witness ==
    /\ SummaryDone
    /\ pml.env.history = "not_in_channel"
    /\ pml.out.calls = << "get_thread_context", "conversations_history",
                          "conversations_join", "conversations_history",
                          "set_status", "call_bedrock_stream" >>
    /\ Len(pml.messages) = 1
    /\ Len(pml.messages[1].content) = 3
    /\ pml.messages[1].content[2] = [user |-> "U1", text |-> "hi"]
    /\ pml.messages[1].content[3] = [user |-> "U2", text |-> "bye"]

\* C19: on the enqueue path the acknowledgment, 200 with an empty body, is
\* returned only with the message in the queue; when send_message fails
\* the invocation raises, returns no response and leaves the queue empty.
C19_AckImpliesEnqueued ==
    (RecognizedInvocation /\ LastBody \notin HandshakeBodies /\ Truthy(queue_url)) =>
        /\ last.out.kind = "return" =>
              /\ last.out.response = Response(200, {}, PyStr(<<>>))
              /\ last.out.calls = << "sqs.send_message" >>
              /\ Len(last.out.sent) = 1
              /\ Len(queue) = 1
              /\ queue[1].body = last.out.sent[1].MessageBody
              /\ queue[1].body = PyStr(json_dumps(last.event))
        /\ (last.out.sent = <<>> \/ ~last.env.sqs_up) =>
              /\ last.out.kind = "raise"
              /\ last.out.response = NoResponse
              /\ queue = <<>>

\* SQS refuses the message of a FIFO queue: no acknowledgment.
C19_Witness ==
    /\ ReachedEnqueue
    /\ queue_url = FifoQueueUrl
    /\ ~last.env.sqs_up
    /\ last.out.calls = << "sqs.send_message" >>
    /\ last.out.kind = "raise"
    /\ last.out.exc = "ClientError"
    /\ queue = <<>>

(***************************************************************************)
(* What counts as a failed record.                                         *)
(***************************************************************************)
\* The environments of the reply path in which the reply fails.
FailingReplies == {env \in PmlEnvironments : env.replies # "ok" \/ env.bridge # "ok"}

\* C20: a record of a batch is reported failed exactly when its replay
\* raised: a replay that returned, with whatever status code, is reported
\* successful, its status code is only recorded, and its message is deleted
\* and not deliverable again; and a reply that fails inside
\* process_message_lazily ends in the apology and a normal return, so it
\* raises nothing into the replay.
C20_OnlyRaiseFails ==
    /\ \A i \in BatchIndex :
          LET r == batch.out.results[i]
              returned == batch.replays[i].kind = "return"
          IN /\ r.ok <=> returned
             /\ ~r.ok => r.exc = "ReplayError"
             /\ returned =>
                   /\ r.status_code = batch.replays[i].statusCode
                   /\ ~ReportedFailed(i)
                   /\ queue[batch.ids[i]].state = "deleted"
                   /\ batch.ids[i] \notin Deliverable
    /\ \A env \in FailingReplies :
          LET out == process_message_lazily("Hello", env)
          IN /\ out.kind = "return"
             /\ out.calls[Len(out.calls)] = "say"
             /\ Cardinality({c \in 1..Len(out.calls) : out.calls[c] = "say"}) = 1

\* A replay that answered 404: its record is reported successful and its
\* message deleted.
C20_Witness ==
    /\ batches > 0
    /\ \E i \in BatchIndex :
          /\ batch.replays[i] = [kind |-> "return", statusCode |-> 404]
          /\ batch.out.results[i].ok
          /\ batch.out.results[i].status_code = 404
          /\ batch.out.kind = "return"
          /\ batch.out.batchItemFailures = <<>>
          /\ queue[batch.ids[i]].state = "deleted"

====
